---- MODULE Spec2Model ----
(***************************************************************************)
(* A model of src/bot.py: the MongoDB transfer bot.                        *)
(*                                                                         *)
(* State: the process-wide user_sessions map (bot.py:21), the contents of  *)
(* the MongoDB collections the bot talks to, and, for every handler        *)
(* invocation in flight, its position in the handler and its locals.       *)
(* A handler runs without preemption from one `await` to the next          *)
(* (pymongo calls are blocking calls, the only awaits are the reply_text   *)
(* calls), so a handler that is suspended is always suspended in a reply.  *)
(***************************************************************************)
EXTENDS Integers, Sequences, FiniteSets, TLC

\* ------------------------------------------------------------------ bounds
MaxDocs == 2      \* document _ids are 1..MaxDocs
MaxArgs == 3      \* /transfer carries 0..MaxArgs arguments
MaxUriArgs == 1   \* /set_source and /set_target carry 0..MaxUriArgs arguments
NumTasks == 2     \* handler invocations that may exist at once
MaxEvents == 2    \* updates handled and health checks answered that are counted
MaxUriLen == 5    \* connection strings given to _get_database have 0..MaxUriLen characters

Tasks == 1..NumTasks
ChatIds == {1, 2}
CollNames == {"c", "d"}

\* Connection strings are sequences of characters.
\* UriA names database a; UriD names none, so the default database is used.
UriA == <<"h", "/", "a">>
UriD == <<"h", "/", "?", "w">>
URIs == {UriA, UriD}

\* The databases that exist on the server, by name.
DbNames == {<<"a">>, <<"b">>}

NoUri == <<>>     \* a key that is not in the session dict / an unset local
NoDb == <<>>      \* an unset database handle

\* -------------------------------------------------------------- sequences
RECURSIVE SplitAcc(_, _, _, _)
SplitAcc(s, sep, cur, acc) ==
  IF s = <<>> THEN Append(acc, cur)
  ELSE IF Head(s) = sep THEN SplitAcc(Tail(s), sep, <<>>, Append(acc, cur))
  ELSE SplitAcc(Tail(s), sep, Append(cur, Head(s)), acc)

\* Python's str.split(sep): the pieces between the separators, in order.
Split(s, sep) == SplitAcc(s, sep, <<>>, <<>>)

\* A resolver that cuts the query off first: split('?')[0].split('/')[-1].
db_nameQueryFirst(uri) ==
  LET parts == Split(Split(uri, "?")[1], "/")
  IN parts[Len(parts)]

\* A resolver that keeps the query: split('/')[-1].
db_nameKeepQuery(uri) ==
  LET parts == Split(uri, "/")
  IN parts[Len(parts)]

\* bot.py:136: uri.split('/')[-1].split('?')[0]
db_name(uri) ==
  LET parts == Split(uri, "/")
      last == parts[Len(parts)]
  IN Split(last, "?")[1]

Range(s) == {s[i] : i \in 1..Len(s)}
Prefix(s, n) == SubSeq(s, 1, n)

\* Sequences over S of length at most n.
RECURSIVE SeqsUpTo(_, _)
SeqsUpTo(S, n) ==
  IF n = 0 THEN {<<>>}
  ELSE LET shorter == SeqsUpTo(S, n - 1)
       IN shorter \cup {Append(s, x) : s \in shorter, x \in S}

\* ------------------------------------------------------------------ state
VARIABLES
  user_sessions,  \* bot.py:21, chat id -> session dict
  db,             \* <<database name, collection name>> -> documents
  configured,     \* chats whose set_source/set_target passed the usage check
  pc,             \* per task: position in the handler
  cmd,            \* per task: the command being handled
  chat_id,        \* per task: update.message.chat_id
  args,           \* per task: context.args
  session,        \* per task: the value of user_sessions.get(chat_id, {})
  src_uri,        \* per task: local src_uri
  tgt_uri,        \* per task: local tgt_uri
  src_db,         \* per task: local src_db (a database name)
  tgt_db,         \* per task: local tgt_db
  docs,           \* per task: local docs
  conns,          \* per task: the MongoClients currently open
  acquired,       \* per task: the MongoClients opened so far
  dialed,         \* per task: the URIs MongoClient has been called with, in order
  inserts,        \* per task: insert_many calls issued so far
  outbox,         \* per task: the replies attempted, with whether delivered
  log,            \* per task: logger entries written
  escaped,        \* per task: an exception left the handler
  updates,        \* the slots an update has been dispatched to, where that is kept
  resolving,      \* a call of _get_database on its own: its uri and results
  run_pc,         \* position in run() and its main()
  web_pc,         \* position in web_handler()
  note_pc,        \* position in startup_notification()
  admin_chat_id,  \* bot.py:26, whether ADMIN_CHAT_ID is set
  loop,           \* the event loop: running, stopped or closed
  started,        \* the Application is running (it processes updates)
  polling,        \* the updater is polling for updates
  serving,        \* the TCPSite of the health endpoint is listening
  handled,        \* updates processed so far
  blind,          \* updates processed while the endpoint was not serving
  probed          \* health checks answered so far

handlers == <<user_sessions, db, configured, pc, cmd, chat_id, args, session,
              src_uri, tgt_uri, src_db, tgt_db, docs, conns, acquired, dialed, inserts,
              outbox, log, escaped>>

lifecycle == <<run_pc, web_pc, note_pc, admin_chat_id, loop, started, polling,
               serving, handled, blind, probed>>

\* What the handlers do not touch.
others == <<updates, resolving, lifecycle>>

vars == <<user_sessions, db, configured, pc, cmd, chat_id, args, session,
          src_uri, tgt_uri, src_db, tgt_db, docs, conns, acquired, dialed, inserts,
          outbox, log, escaped, updates, resolving, run_pc, web_pc, note_pc,
          admin_chat_id, loop, started, polling, serving, handled, blind, probed>>

locals == <<src_uri, tgt_uri, src_db, tgt_db, docs, conns, acquired, dialed,
           inserts>>

EmptySession == [exists |-> FALSE, source_uri |-> NoUri, target_uri |-> NoUri]

\* A lookup that ignores its key: every chat shares the first chat's session.
GetShared(sessions, c) == sessions[1]

\* user_sessions.get(chat_id, {})
Get(sessions, c) == sessions[c]

\* A lookup that stores the default it returns, as setdefault does.
AfterGetSetDefault(sessions, c) == [sessions EXCEPT ![c].exists = TRUE]

\* bot.py:95: what user_sessions is after .get(chat_id, {}): what it was.
AfterGet(sessions, c) == sessions

\* 'source_uri' in session / 'target_uri' in session
HasSource(s) == s.source_uri # NoUri
HasTarget(s) == s.target_uri # NoUri

\* ------------------------------------------------- the handlers' decisions
\* An unpacking with the two keys exchanged.
SessionUrisSwapped(s) == <<s.target_uri, s.source_uri>>

\* bot.py:106: session['source_uri'], session['target_uri']
SessionUris(s) == <<s.source_uri, s.target_uri>>

\* A check that wants more than the URI.
NoArgsOrOne(a) == Len(a) <= 1

\* bot.py:71, bot.py:83: `not context.args`
NoArgs(a) == Len(a) = 0

\* A check that lets more than two arguments through.
BadTransferArgsTooFew(a) == Len(a) < 2

\* bot.py:98: `not context.args or len(context.args) != 2`
BadTransferArgs(a) == Len(a) = 0 \/ Len(a) # 2

\* A check with `and` for `or`: one URI is enough.
SessionIncompleteBoth(s) == ~HasSource(s) /\ ~HasTarget(s)

\* bot.py:101: `'source_uri' not in session or 'target_uri' not in session`
SessionIncomplete(s) == ~HasSource(s) \/ ~HasTarget(s)

\* A store that replaces the session dict instead of updating it.
StoreSourceFresh(sessions, c, u) ==
  [sessions EXCEPT ![c] = [exists |-> TRUE, source_uri |-> u, target_uri |-> NoUri]]

\* bot.py:75-76: the session is created if absent, then source_uri is set.
StoreSource(sessions, c, u) ==
  [sessions EXCEPT ![c] = [Get(sessions, c) EXCEPT !.exists = TRUE, !.source_uri = u]]

\* A store with one session for every chat.
StoreTargetEveryChat(sessions, c, u) ==
  [k \in DOMAIN sessions |-> [sessions[k] EXCEPT !.exists = TRUE, !.target_uri = u]]

\* bot.py:87-88
StoreTarget(sessions, c, u) ==
  [sessions EXCEPT ![c] = [Get(sessions, c) EXCEPT !.exists = TRUE, !.target_uri = u]]

\* An exit that closes the target client only.
CloseClientsTargetOnly(open) == open \ {"tgt"}

\* bot.py:110: leaving the `with` statement closes every client it opened.
CloseClients(open) == {}

\* An emptiness check with the sense reversed.
NoDocsInverted(ds) == ds # <<>>

\* An emptiness check that never fires.
NoDocsNever(ds) == FALSE

\* bot.py:116: `not docs`
NoDocs(ds) == ds = <<>>

\* A handler whose first except clause is never taken.
ErrorReplyUnexpected(kind) == "unexpected_error"

\* bot.py:127-131: which except clause takes an exception of this kind.
ErrorReply(kind) == IF kind = "PyMongoError" THEN "mongo_error" ELSE "unexpected_error"

\* bot.py:115: list(collection.find()) yields every document of the collection.
FindAll(d, name, coll) == d[<<name, coll>>]

\* The first position of ds whose _id is already in the collection, or
\* Len(ds) + 1 when no document collides.
FirstCollision(target, ds) ==
  LET hits == {i \in 1..Len(ds) :
                 ds[i] \in Range(target) \cup Range(Prefix(ds, i - 1))}
  IN IF hits = {} THEN Len(ds) + 1
     ELSE CHOOSE i \in hits : \A j \in hits : i <= j

\* A bulk write that skips the documents the collection already holds.
InsertManyDedup(target, ds) ==
  {[ok |-> TRUE, kind |-> "none",
    contents |-> target \o SelectSeq(ds, LAMBDA x : x \notin Range(target))]}

\* bot.py:120: insert_many(docs), an ordered bulk insert.  An empty list is
\* refused before anything is sent.  Otherwise the documents are appended in
\* order up to the first duplicate _id, where the call raises BulkWriteError
\* with the documents before it written; the call may also fail before
\* anything is written (the connection is lost).
InsertMany(target, ds) ==
  IF ds = <<>> THEN {[ok |-> FALSE, kind |-> "Exception", contents |-> target]}
  ELSE LET k == FirstCollision(target, ds)
       IN {[ok |-> FALSE, kind |-> "PyMongoError", contents |-> target]}
          \cup (IF k > Len(ds)
                THEN {[ok |-> TRUE, kind |-> "none", contents |-> target \o ds]}
                ELSE {[ok |-> FALSE, kind |-> "PyMongoError",
                       contents |-> target \o Prefix(ds, k - 1)]})

\* bot.py:137: `client[db_name] if db_name else client.get_database()`.
\* A named database is that database, if the server takes the name; the
\* default database is whatever the driver derives from the connection
\* string, or none (ConfigurationError).  NoDb stands for the call raising.
\* bot.py:137, `if db_name`: the empty string is false.
UsesDefault(name) == name = <<>>

GetDatabase(uri) ==
  LET name == db_name(uri)
  IN IF ~UsesDefault(name)
     THEN IF name \in DbNames THEN {name} ELSE {NoDb}      \* InvalidName
     ELSE DbNames \cup {NoDb}

Message(text, n) == [text |-> text, n |-> n, status |-> "sending"]
Sending(box, text, n) == Append(box, Message(text, n))
Resolve(box, status) == [box EXCEPT ![Len(box)].status = status]
Delivered(box) == {i \in 1..Len(box) : box[i].status = "delivered"}

\* ------------------------------------------------------------------- Init
\* The databases before the bot starts: collection c of database a holds
\* documents MaxDocs..2, collection c of database b may hold document 1,
\* the rest are empty.
Desc == [i \in 1..(MaxDocs - 1) |-> MaxDocs + 1 - i]
InitDbs == {[k \in DbNames \X CollNames |->
              IF k = <<<<"a">>, "c">> THEN x
              ELSE IF k = <<<<"b">>, "c">> THEN y ELSE <<>>]
            : x \in {Desc}, y \in {<<>>, <<1>>}}

\* No call of _get_database is being looked at.
NotResolving == [pc |-> "off", uri |-> <<>>, name |-> <<>>, again |-> <<>>,
                 branch |-> "none"]

\* No handler is running.
AllIdle ==
  /\ db \in InitDbs
  /\ pc = [t \in Tasks |-> "idle"]
  /\ cmd = [t \in Tasks |-> "none"]
  /\ chat_id = [t \in Tasks |-> 0]
  /\ args = [t \in Tasks |-> <<>>]
  /\ session = [t \in Tasks |-> EmptySession]
  /\ src_uri = [t \in Tasks |-> NoUri]
  /\ tgt_uri = [t \in Tasks |-> NoUri]
  /\ src_db = [t \in Tasks |-> NoDb]
  /\ tgt_db = [t \in Tasks |-> NoDb]
  /\ docs = [t \in Tasks |-> <<>>]
  /\ conns = [t \in Tasks |-> {}]
  /\ acquired = [t \in Tasks |-> {}]
  /\ dialed = [t \in Tasks |-> <<>>]
  /\ inserts = [t \in Tasks |-> 0]
  /\ outbox = [t \in Tasks |-> <<>>]
  /\ log = [t \in Tasks |-> <<>>]
  /\ escaped = [t \in Tasks |-> FALSE]

HandlersInit ==
  /\ user_sessions = [c \in ChatIds |-> EmptySession]
  /\ configured = {}
  /\ AllIdle

\* The process in its steady state: main() waits in gather, the updater
\* polls, the health endpoint listens.
Up ==
  /\ run_pc = "gathered" /\ web_pc = "sleeping" /\ note_pc = "skipped"
  /\ admin_chat_id = "unset" /\ loop = "running"
  /\ started = TRUE /\ polling = TRUE /\ serving = TRUE
  /\ handled = 0 /\ blind = 0 /\ probed = 0

Init ==
  /\ HandlersInit
  /\ updates = {}
  /\ resolving = NotResolving
  /\ Up

\* --------------------------------------------------------------- scheduling
AwaitPcs == {"reply_usage", "reply_missing", "reply_set", "reply_empty",
             "reply_success", "reply_error"}

\* The event loop runs one handler at a time up to its next await.
Suspended(t) == pc[t] \in AwaitPcs \cup {"idle"}
MayRun(t) == \A u \in Tasks \ {t} : Suspended(u)

\* bot.py:28: the Application is built without concurrent_updates, so an
\* update is dispatched only when the handler of the previous one has ended
\* (to the first free slot).
Sequential(t) == \A u \in Tasks : pc[u] = "idle" /\ t <= u

\* ------------------------------------------------------------- set_source
\* bot.py:68-77, up to the await of the reply.
SetSource(t) ==
  /\ pc[t] = "idle" /\ MayRun(t)
  /\ \E c \in ChatIds, a \in SeqsUpTo(URIs, MaxUriArgs) :
       /\ cmd' = [cmd EXCEPT ![t] = "set_source"]
       /\ chat_id' = [chat_id EXCEPT ![t] = c]
       /\ args' = [args EXCEPT ![t] = a]
       /\ IF NoArgs(a)
          THEN /\ outbox' = [outbox EXCEPT ![t] = Sending(@, "usage", 0)]
               /\ pc' = [pc EXCEPT ![t] = "reply_usage"]
               /\ UNCHANGED <<user_sessions, configured, session>>
          ELSE /\ session' = [session EXCEPT ![t] = Get(user_sessions, c)]
               /\ user_sessions' = StoreSource(user_sessions, c, a[1])
               /\ configured' = configured \cup {c}
               /\ outbox' = [outbox EXCEPT ![t] = Sending(@, "source_set", 0)]
               /\ pc' = [pc EXCEPT ![t] = "reply_set"]
  /\ UNCHANGED <<db, locals, log, escaped>>

\* bot.py:80-89, up to the await of the reply.
SetTarget(t) ==
  /\ pc[t] = "idle" /\ MayRun(t)
  /\ \E c \in ChatIds, a \in SeqsUpTo(URIs, MaxUriArgs) :
       /\ cmd' = [cmd EXCEPT ![t] = "set_target"]
       /\ chat_id' = [chat_id EXCEPT ![t] = c]
       /\ args' = [args EXCEPT ![t] = a]
       /\ IF NoArgs(a)
          THEN /\ outbox' = [outbox EXCEPT ![t] = Sending(@, "usage", 0)]
               /\ pc' = [pc EXCEPT ![t] = "reply_usage"]
               /\ UNCHANGED <<user_sessions, configured, session>>
          ELSE /\ session' = [session EXCEPT ![t] = Get(user_sessions, c)]
               /\ user_sessions' = StoreTarget(user_sessions, c, a[1])
               /\ configured' = configured \cup {c}
               /\ outbox' = [outbox EXCEPT ![t] = Sending(@, "target_set", 0)]
               /\ pc' = [pc EXCEPT ![t] = "reply_set"]
  /\ UNCHANGED <<db, locals, log, escaped>>

\* --------------------------------------------------------------- transfer
\* bot.py:94-106: the session lookup and the two checks.
Transfer(t) ==
  /\ pc[t] = "idle" /\ MayRun(t)
  /\ \E c \in ChatIds, a \in SeqsUpTo(CollNames, MaxArgs) :
       LET s == Get(user_sessions, c) IN
       /\ cmd' = [cmd EXCEPT ![t] = "transfer"]
       /\ chat_id' = [chat_id EXCEPT ![t] = c]
       /\ args' = [args EXCEPT ![t] = a]
       /\ session' = [session EXCEPT ![t] = s]
       /\ IF BadTransferArgs(a)
          THEN /\ outbox' = [outbox EXCEPT ![t] = Sending(@, "usage", 0)]
               /\ pc' = [pc EXCEPT ![t] = "reply_usage"]
               /\ UNCHANGED <<src_uri, tgt_uri>>
          ELSE IF SessionIncomplete(s)
          THEN /\ outbox' = [outbox EXCEPT ![t] = Sending(@, "missing", 0)]
               /\ pc' = [pc EXCEPT ![t] = "reply_missing"]
               /\ UNCHANGED <<src_uri, tgt_uri>>
          ELSE /\ src_uri' = [src_uri EXCEPT ![t] = SessionUris(s)[1]]
               /\ tgt_uri' = [tgt_uri EXCEPT ![t] = SessionUris(s)[2]]
               /\ pc' = [pc EXCEPT ![t] = "open_source"]
               /\ UNCHANGED outbox
       /\ user_sessions' = AfterGet(user_sessions, c)
  /\ UNCHANGED <<db, configured, src_db, tgt_db, docs, conns,
                 acquired, dialed, inserts, log, escaped>>

\* An exception of this kind raised inside the try block (bot.py:108-125):
\* the `with` statement closes the clients, then the matching except clause
\* (bot.py:127-131) sends its reply.
Raise(t, kind) ==
  /\ conns' = [conns EXCEPT ![t] = CloseClients(@)]
  /\ outbox' = [outbox EXCEPT ![t] = Sending(@, ErrorReply(kind), 0)]
  /\ pc' = [pc EXCEPT ![t] = "reply_error"]

\* bot.py:110, MongoClient(src_uri)
OpenSource(t) ==
  /\ pc[t] = "open_source" /\ MayRun(t)
  /\ dialed' = [dialed EXCEPT ![t] = Append(@, src_uri[t])]
  /\ \/ /\ conns' = [conns EXCEPT ![t] = @ \cup {"src"}]
        /\ acquired' = [acquired EXCEPT ![t] = @ \cup {"src"}]
        /\ pc' = [pc EXCEPT ![t] = "open_target"]
        /\ UNCHANGED outbox
     \/ \E kind \in {"PyMongoError", "Exception"} :
          Raise(t, kind) /\ UNCHANGED acquired
  /\ UNCHANGED <<user_sessions, db, configured, cmd, chat_id, args, session,
                 src_uri, tgt_uri, src_db, tgt_db, docs, inserts, log, escaped>>

\* bot.py:110, MongoClient(tgt_uri)
OpenTarget(t) ==
  /\ pc[t] = "open_target" /\ MayRun(t)
  /\ dialed' = [dialed EXCEPT ![t] = Append(@, tgt_uri[t])]
  /\ \/ /\ conns' = [conns EXCEPT ![t] = @ \cup {"tgt"}]
        /\ acquired' = [acquired EXCEPT ![t] = @ \cup {"tgt"}]
        /\ pc' = [pc EXCEPT ![t] = "get_database"]
        /\ UNCHANGED outbox
     \/ \E kind \in {"PyMongoError", "Exception"} :
          Raise(t, kind) /\ UNCHANGED acquired
  /\ UNCHANGED <<user_sessions, db, configured, cmd, chat_id, args, session,
                 src_uri, tgt_uri, src_db, tgt_db, docs, inserts, log, escaped>>

\* bot.py:111-112
GetDatabases(t) ==
  /\ pc[t] = "get_database" /\ MayRun(t)
  /\ \E s \in GetDatabase(src_uri[t]), g \in GetDatabase(tgt_uri[t]) :
       IF s = NoDb \/ g = NoDb
       THEN /\ Raise(t, "PyMongoError")
            /\ UNCHANGED <<src_db, tgt_db>>
       ELSE /\ src_db' = [src_db EXCEPT ![t] = s]
            /\ tgt_db' = [tgt_db EXCEPT ![t] = g]
            /\ pc' = [pc EXCEPT ![t] = "find"]
            /\ UNCHANGED <<conns, outbox>>
  /\ UNCHANGED <<user_sessions, db, configured, cmd, chat_id, args, session,
                 src_uri, tgt_uri, docs, acquired, dialed, inserts, log,
                 escaped>>

\* bot.py:115-118
Find(t) ==
  /\ pc[t] = "find" /\ MayRun(t)
  /\ \/ LET ds == FindAll(db, src_db[t], args[t][1]) IN
        /\ docs' = [docs EXCEPT ![t] = ds]
        /\ IF NoDocs(ds)
           THEN /\ outbox' = [outbox EXCEPT ![t] = Sending(@, "empty", 0)]
                /\ pc' = [pc EXCEPT ![t] = "reply_empty"]
           ELSE /\ pc' = [pc EXCEPT ![t] = "insert_many"]
                /\ UNCHANGED outbox
        /\ UNCHANGED conns
     \/ Raise(t, "PyMongoError") /\ UNCHANGED docs
  /\ UNCHANGED <<user_sessions, db, configured, cmd, chat_id, args, session,
                 src_uri, tgt_uri, src_db, tgt_db, acquired, dialed, inserts,
                 log, escaped>>

\* bot.py:120-124
Insert(t) ==
  /\ pc[t] = "insert_many" /\ MayRun(t)
  /\ inserts' = [inserts EXCEPT ![t] = @ + 1]
  /\ \E r \in InsertMany(db[<<tgt_db[t], args[t][2]>>], docs[t]) :
       /\ db' = [db EXCEPT ![<<tgt_db[t], args[t][2]>>] = r.contents]
       /\ IF r.ok
          THEN /\ outbox' = [outbox EXCEPT ![t] = Sending(@, "success", Len(docs[t]))]
               /\ pc' = [pc EXCEPT ![t] = "reply_success"]
               /\ UNCHANGED conns
          ELSE Raise(t, r.kind)
  /\ UNCHANGED <<user_sessions, configured, cmd, chat_id, args, session,
                 src_uri, tgt_uri, src_db, tgt_db, docs, acquired, dialed, log,
                 escaped>>

\* ----------------------------------------------------------------- replies
\* An awaited reply_text call returns: the operator has the message.
ReplyDelivered(t) ==
  /\ pc[t] \in AwaitPcs /\ MayRun(t)
  /\ outbox' = [outbox EXCEPT ![t] = Resolve(@, "delivered")]
  /\ pc' = [pc EXCEPT ![t] = "done"]
  /\ log' = [log EXCEPT ![t] =
       CASE pc[t] \in {"reply_set", "reply_success"} -> Append(@, "info")  \* :78, :90, :125
         [] pc[t] = "reply_error" -> Append(@, "error")                    \* :129, :132
         [] OTHER -> @]
  /\ conns' = [conns EXCEPT ![t] =                                         \* :118, :125
       IF pc[t] \in {"reply_empty", "reply_success"} THEN CloseClients(@) ELSE @]
  /\ UNCHANGED <<user_sessions, db, configured, cmd, chat_id, args, session,
                 src_uri, tgt_uri, src_db, tgt_db, docs, acquired, dialed,
                 inserts, escaped>>

\* An awaited reply_text call raises: the operator has no message.  Inside
\* the try block (bot.py:117, 121) the exception is handled by bot.py:130;
\* anywhere else it leaves the handler.
ReplyFailed(t) ==
  /\ pc[t] \in AwaitPcs /\ MayRun(t)
  /\ IF pc[t] \in {"reply_empty", "reply_success"}
     THEN /\ conns' = [conns EXCEPT ![t] = CloseClients(@)]
          /\ outbox' = [outbox EXCEPT ![t] =
               Sending(Resolve(@, "failed"), ErrorReply("Exception"), 0)]
          /\ pc' = [pc EXCEPT ![t] = "reply_error"]
          /\ UNCHANGED escaped
     ELSE /\ outbox' = [outbox EXCEPT ![t] = Resolve(@, "failed")]
          /\ escaped' = [escaped EXCEPT ![t] = TRUE]
          /\ pc' = [pc EXCEPT ![t] = "done"]
          /\ UNCHANGED conns
  /\ UNCHANGED <<user_sessions, db, configured, cmd, chat_id, args, session,
                 src_uri, tgt_uri, src_db, tgt_db, docs, acquired, dialed,
                 inserts, log>>

\* The handler's coroutine has ended; its frame is gone.
Return(t) ==
  /\ pc[t] = "done"
  /\ pc' = [pc EXCEPT ![t] = "idle"]
  /\ cmd' = [cmd EXCEPT ![t] = "none"]
  /\ chat_id' = [chat_id EXCEPT ![t] = 0]
  /\ args' = [args EXCEPT ![t] = <<>>]
  /\ session' = [session EXCEPT ![t] = EmptySession]
  /\ src_uri' = [src_uri EXCEPT ![t] = NoUri]
  /\ tgt_uri' = [tgt_uri EXCEPT ![t] = NoUri]
  /\ src_db' = [src_db EXCEPT ![t] = NoDb]
  /\ tgt_db' = [tgt_db EXCEPT ![t] = NoDb]
  /\ docs' = [docs EXCEPT ![t] = <<>>]
  /\ conns' = [conns EXCEPT ![t] = {}]
  /\ acquired' = [acquired EXCEPT ![t] = {}]
  /\ dialed' = [dialed EXCEPT ![t] = <<>>]
  /\ inserts' = [inserts EXCEPT ![t] = 0]
  /\ outbox' = [outbox EXCEPT ![t] = <<>>]
  /\ log' = [log EXCEPT ![t] = <<>>]
  /\ escaped' = [escaped EXCEPT ![t] = FALSE]
  /\ UNCHANGED <<user_sessions, db, configured>>

\* ------------------------------------------------------------ specification
Next ==
  \E t \in Tasks :
    \/ Sequential(t) /\ SetSource(t) /\ UNCHANGED others
    \/ Sequential(t) /\ SetTarget(t) /\ UNCHANGED others
    \/ Sequential(t) /\ Transfer(t) /\ UNCHANGED others
    \/ OpenSource(t) /\ UNCHANGED others
    \/ OpenTarget(t) /\ UNCHANGED others
    \/ GetDatabases(t) /\ UNCHANGED others
    \/ Find(t) /\ UNCHANGED others
    \/ Insert(t) /\ UNCHANGED others
    \/ ReplyDelivered(t) /\ UNCHANGED others
    \/ ReplyFailed(t) /\ UNCHANGED others
    \/ Return(t) /\ UNCHANGED others

Spec == Init /\ [][Next]_vars

\* ------------------------------------------------------ handlers interleaved
\* The handlers as coroutines of one event loop, an update dispatched while
\* the handlers of earlier updates are suspended in their replies.  The
\* behaviours of Spec, where updates are dispatched one after the other, are
\* among these.
\* Sessions that set_source and set_target have left behind: none, or
\* chat 1 with both URIs.
ConcSessions ==
  {[c \in ChatIds |-> EmptySession],
   [c \in ChatIds |-> IF c = 1
      THEN [exists |-> TRUE, source_uri |-> UriA, target_uri |-> UriD]
      ELSE EmptySession]}

InitConc ==
  /\ user_sessions \in ConcSessions
  /\ configured = {c \in ChatIds : user_sessions[c].exists}
  /\ AllIdle
  /\ updates = {}
  /\ resolving = NotResolving
  /\ Up

\* The two handler invocations that race: each slot takes one update, the
\* second being dispatched at any moment the first is not running.
Racing == {1, 2}

Dispatch(t) ==
  /\ t \in Racing \ updates
  /\ \A u \in Racing : u < t => u \in updates
  /\ updates' = updates \cup {t}

NextConc ==
  \E t \in Tasks :
    \/ Dispatch(t) /\ SetSource(t) /\ UNCHANGED <<resolving, lifecycle>>
    \/ Dispatch(t) /\ SetTarget(t) /\ UNCHANGED <<resolving, lifecycle>>
    \/ Dispatch(t) /\ Transfer(t) /\ UNCHANGED <<resolving, lifecycle>>
    \/ OpenSource(t) /\ UNCHANGED others
    \/ OpenTarget(t) /\ UNCHANGED others
    \/ GetDatabases(t) /\ UNCHANGED others
    \/ Find(t) /\ UNCHANGED others
    \/ Insert(t) /\ UNCHANGED others
    \/ ReplyDelivered(t) /\ UNCHANGED others
    \/ ReplyFailed(t) /\ UNCHANGED others
    \/ Return(t) /\ UNCHANGED others

SpecConc == InitConc /\ [][NextConc]_vars

\* ------------------------------------------------------- run(), bot.py:166
\* The process from `loop.run_until_complete(main())` to its exit.  The
\* coroutines main(), web_handler() and startup_notification() and the
\* updater advance only while the loop runs.
InitRun ==
  /\ HandlersInit
  /\ updates = {}
  /\ resolving = NotResolving
  /\ run_pc = "initialize" /\ web_pc = "unscheduled" /\ note_pc = "unscheduled"
  /\ admin_chat_id \in {"unset", "set"}
  /\ loop = "running"
  /\ started = FALSE /\ polling = FALSE /\ serving = FALSE
  /\ handled = 0 /\ blind = 0 /\ probed = 0

\* An exception leaves main(): run_until_complete raises it, the loop has
\* stopped, and run() goes to its finally clause (bot.py:184).
MainRaises ==
  /\ run_pc' = "finally"
  /\ loop' = "stopped"

\* bot.py:169
AppInitialize ==
  /\ run_pc = "initialize" /\ loop = "running"
  /\ \/ run_pc' = "start" /\ UNCHANGED loop
     \/ MainRaises
  /\ UNCHANGED <<web_pc, note_pc, admin_chat_id, started, polling, serving,
                 handled, blind, probed>>

\* bot.py:170
AppStart ==
  /\ run_pc = "start" /\ loop = "running"
  /\ \/ run_pc' = "start_polling" /\ started' = TRUE /\ UNCHANGED loop
     \/ MainRaises /\ UNCHANGED started
  /\ UNCHANGED <<web_pc, note_pc, admin_chat_id, polling, serving, handled,
                 blind, probed>>

\* bot.py:171
StartPolling ==
  /\ run_pc = "start_polling" /\ loop = "running"
  /\ \/ run_pc' = "gather" /\ polling' = TRUE /\ UNCHANGED loop
     \/ MainRaises /\ UNCHANGED polling
  /\ UNCHANGED <<web_pc, note_pc, admin_chat_id, started, serving, handled,
                 blind, probed>>

\* bot.py:174-177: gather schedules both coroutines and waits for them.
Gather ==
  /\ run_pc = "gather" /\ loop = "running"
  /\ run_pc' = "gathered"
  /\ web_pc' = "setup"
  /\ note_pc' = "check"
  /\ UNCHANGED <<admin_chat_id, loop, started, polling, serving, handled,
                 blind, probed>>

\* An exception leaves web_handler(): gather hands it to main() if main()
\* still waits for it.
WebRaises ==
  /\ web_pc' = "raised"
  /\ IF run_pc = "gathered" THEN MainRaises ELSE UNCHANGED <<run_pc, loop>>

\* bot.py:156-159
RunnerSetup ==
  /\ web_pc = "setup" /\ loop = "running"
  /\ \/ web_pc' = "site_start" /\ UNCHANGED <<run_pc, loop>>
     \/ WebRaises
  /\ UNCHANGED <<note_pc, admin_chat_id, started, polling, serving, handled,
                 blind, probed>>

\* bot.py:160-164: the site listens from here on, or the port cannot be bound.
SiteStart ==
  /\ web_pc = "site_start" /\ loop = "running"
  /\ \/ web_pc' = "sleeping" /\ serving' = TRUE /\ UNCHANGED <<run_pc, loop>>
     \/ WebRaises /\ UNCHANGED serving
  /\ UNCHANGED <<note_pc, admin_chat_id, started, polling, handled, blind,
                 probed>>

\* bot.py:139-149
StartupNotification ==
  /\ note_pc = "check" /\ loop = "running"
  /\ IF admin_chat_id = "set"
     THEN note_pc' \in {"sent", "logged_failure"}
     ELSE note_pc' = "skipped"
  /\ UNCHANGED <<run_pc, web_pc, admin_chat_id, loop, started, polling,
                 serving, handled, blind, probed>>

\* The updater has fetched an update and the Application runs its handler.
HandleUpdate ==
  /\ loop = "running" /\ polling /\ started
  /\ handled < MaxEvents
  /\ handled' = handled + 1
  /\ blind' = IF serving THEN blind ELSE blind + 1
  /\ UNCHANGED <<run_pc, web_pc, note_pc, admin_chat_id, loop, started,
                 polling, serving, probed>>

\* bot.py:153-154: a GET / is answered.
HealthCheck ==
  /\ loop = "running" /\ serving
  /\ probed < MaxEvents
  /\ probed' = probed + 1
  /\ UNCHANGED <<run_pc, web_pc, note_pc, admin_chat_id, loop, started,
                 polling, serving, handled, blind>>

\* bot.py:182: KeyboardInterrupt while the loop runs main().
Interrupt ==
  /\ loop = "running"
  /\ run_pc \in {"initialize", "start", "start_polling", "gather", "gathered"}
  /\ MainRaises
  /\ UNCHANGED <<web_pc, note_pc, admin_chat_id, started, polling, serving,
                 handled, blind, probed>>

\* bot.py:185: run_until_complete(self.app.stop()) runs the loop again.  An
\* Application that is not running either refuses to stop (the exception
\* ends the process) or returns at once.
StopBegin ==
  /\ run_pc = "finally"
  /\ \/ /\ run_pc' = "stopping" /\ loop' = "running"
        /\ UNCHANGED <<polling, serving>>
     \/ /\ ~started
        /\ run_pc' = "crashed" /\ loop' = "gone"
        /\ polling' = FALSE /\ serving' = FALSE
  /\ UNCHANGED <<web_pc, note_pc, admin_chat_id, started, handled, blind,
                 probed>>

\* bot.py:185: app.stop() has returned.
StopEnd ==
  /\ run_pc = "stopping" /\ loop = "running"
  /\ run_pc' = "close" /\ loop' = "stopped"
  /\ started' = FALSE
  /\ UNCHANGED <<web_pc, note_pc, admin_chat_id, polling, serving, handled,
                 blind, probed>>

\* bot.py:186: loop.close(), then the process ends.
LoopClose ==
  /\ run_pc = "close"
  /\ run_pc' = "exited" /\ loop' = "closed"
  /\ polling' = FALSE /\ serving' = FALSE
  /\ UNCHANGED <<web_pc, note_pc, admin_chat_id, started, handled, blind,
                 probed>>

NextRun ==
  \/ AppInitialize /\ UNCHANGED <<handlers, updates, resolving>>
  \/ AppStart /\ UNCHANGED <<handlers, updates, resolving>>
  \/ StartPolling /\ UNCHANGED <<handlers, updates, resolving>>
  \/ Gather /\ UNCHANGED <<handlers, updates, resolving>>
  \/ RunnerSetup /\ UNCHANGED <<handlers, updates, resolving>>
  \/ SiteStart /\ UNCHANGED <<handlers, updates, resolving>>
  \/ StartupNotification /\ UNCHANGED <<handlers, updates, resolving>>
  \/ HandleUpdate /\ UNCHANGED <<handlers, updates, resolving>>
  \/ HealthCheck /\ UNCHANGED <<handlers, updates, resolving>>
  \/ Interrupt /\ UNCHANGED <<handlers, updates, resolving>>
  \/ StopBegin /\ UNCHANGED <<handlers, updates, resolving>>
  \/ StopEnd /\ UNCHANGED <<handlers, updates, resolving>>
  \/ LoopClose /\ UNCHANGED <<handlers, updates, resolving>>

SpecRun == InitRun /\ [][NextRun]_vars

\* ------------------------------------------------- _get_database on its own
\* The characters connection strings are made of here, and the strings.
Chars == {"h", "a", "/", "?"}
ConnectionStrings == SeqsUpTo(Chars, MaxUriLen)

\* "mongodb://h/dbname?x=1" and "mongodb://h/"
UriWithQuery == <<"m", "o", "n", "g", "o", "d", "b", ":", "/", "/", "h", "/",
                  "d", "b", "n", "a", "m", "e", "?", "x", "=", "1">>
UriNoName == <<"m", "o", "n", "g", "o", "d", "b", ":", "/", "/", "h", "/">>

InitResolve ==
  /\ HandlersInit
  /\ updates = {}
  /\ Up
  /\ \E u \in ConnectionStrings \cup {UriWithQuery, UriNoName} :
       resolving = [NotResolving EXCEPT !.pc = "called", !.uri = u]

\* bot.py:136-137: the name is taken from the uri, then the branch is chosen.
ResolveName ==
  /\ resolving.pc = "called"
  /\ resolving' = [resolving EXCEPT
       !.pc = "returned",
       !.name = db_name(resolving.uri),
       !.branch = IF UsesDefault(db_name(resolving.uri))
                  THEN "get_database" ELSE "by_name"]
  /\ UNCHANGED <<handlers, updates, lifecycle>>

\* bot.py:136 applied to the name it has produced.
ResolveAgain ==
  /\ resolving.pc = "returned"
  /\ resolving' = [resolving EXCEPT !.pc = "repeated",
                                    !.again = db_name(resolving.name)]
  /\ UNCHANGED <<handlers, updates, lifecycle>>

NextResolve == ResolveName \/ ResolveAgain

SpecResolve == InitResolve /\ [][NextResolve]_vars

\* ------------------------------------------------------------- properties
Texts(box) == {box[i].text : i \in 1..Len(box)}
Last(box) == box[Len(box)]
SrcKey(t) == <<src_db[t], args[t][1]>>   \* src_db[src_collection]
TgtKey(t) == <<tgt_db[t], args[t][2]>>   \* tgt_db[tgt_collection]
Reply(text, n) == [text |-> text, n |-> n, status |-> "delivered"]

\* C1: when the bulk insert of a transfer succeeds, the documents inserted
\* are the N >= 1 documents the source collection holds, the target
\* collection becomes its prior contents followed by those N documents
\* (whether or not it was empty), no other collection changes, and the
\* success reply being sent carries the count N.
C1_TransferAppends ==
  [][\A t \in Tasks :
       (pc[t] = "insert_many" /\ pc'[t] = "reply_success") =>
         /\ Len(docs[t]) >= 1
         /\ docs[t] = db[SrcKey(t)]
         /\ db'[TgtKey(t)] = db[TgtKey(t)] \o docs[t]
         /\ \A k \in DOMAIN db \ {TgtKey(t)} : db'[k] = db[k]
         /\ Last(outbox'[t]) = Message("success", Len(docs[t]))]_vars

\* A transfer has ended with its success reply delivered, the count in it
\* is the number of documents read, and the target, which was not empty
\* before, ends with those documents.
C1_Witness ==
  \E t \in Tasks :
    /\ pc[t] = "done" /\ cmd[t] = "transfer"
    /\ outbox[t] = <<Reply("success", Len(docs[t]))>>
    /\ Len(docs[t]) >= 1
    /\ LET tgt == db[TgtKey(t)]
       IN /\ Len(tgt) > Len(docs[t])
          /\ SubSeq(tgt, Len(tgt) - Len(docs[t]) + 1, Len(tgt)) = docs[t]

\* C2: a read that succeeds on an empty source collection leads to the
\* 'no documents found' reply and changes no collection; a transfer that
\* answers 'no documents found' has issued no insert_many call; and the
\* collections change only in a step that issues an insert_many call.
C2_EmptySource ==
  [][/\ \A t \in Tasks :
          (/\ pc[t] = "find"
           /\ pc'[t] \in {"reply_empty", "insert_many"}
           /\ db[SrcKey(t)] = <<>>) =>
             /\ pc'[t] = "reply_empty"
             /\ Last(outbox'[t]) = Message("empty", 0)
             /\ db' = db
     /\ \A t \in Tasks : "empty" \in Texts(outbox'[t]) => inserts'[t] = 0
     /\ db' # db => \E t \in Tasks : inserts'[t] = inserts[t] + 1]_vars

\* A transfer over two open connections has ended with the 'no documents
\* found' reply delivered, without an insert_many call, its source
\* collection empty and its target collection not empty.
C2_Witness ==
  \E t \in Tasks :
    /\ pc[t] = "done" /\ cmd[t] = "transfer"
    /\ outbox[t] = <<Reply("empty", 0)>>
    /\ acquired[t] = {"src", "tgt"}
    /\ inserts[t] = 0
    /\ db[SrcKey(t)] = <<>>
    /\ db[TgtKey(t)] # <<>>

\* C3 as claimed: a transfer by an identity that never passed the usage
\* check of set_source or set_target answers 'set both URIs first',
\* whatever its arguments.
C3_AsClaimed ==
  \A t \in Tasks :
    (cmd[t] = "transfer" /\ chat_id[t] \notin configured) =>
      outbox[t] # <<>> /\ outbox[t][1].text = "missing"

\* C3 amended: a transfer by an identity that never passed the usage check
\* of set_source or set_target answers 'set both URIs first' when it
\* carries exactly two collection names and the usage message otherwise; it
\* sends nothing else and opens no connection.
C3_NeverConfigured ==
  \A t \in Tasks :
    (cmd[t] = "transfer" /\ chat_id[t] \notin configured) =>
      /\ Len(outbox[t]) = 1
      /\ outbox[t][1].text = (IF Len(args[t]) = 2 THEN "missing" ELSE "usage")
      /\ acquired[t] = {}

\* An identity that configured nothing has had 'set both URIs first'
\* delivered for a transfer with two collection names, while another
\* identity is configured.
C3_Witness ==
  \E t \in Tasks :
    /\ pc[t] = "done" /\ cmd[t] = "transfer"
    /\ chat_id[t] \notin configured /\ configured # {}
    /\ Len(args[t]) = 2
    /\ outbox[t] = <<Reply("missing", 0)>>

\* C4: a handler has opened a connection only if it is a transfer whose
\* session, as read, had both source_uri and target_uri; a transfer with
\* two collection names whose session lacked either URI answers 'set both
\* URIs first' and has opened no connection.
C4_SessionComplete ==
  \A t \in Tasks :
    /\ acquired[t] # {} =>
         /\ cmd[t] = "transfer"
         /\ session[t].source_uri # NoUri /\ session[t].target_uri # NoUri
         /\ src_uri[t] = session[t].source_uri /\ tgt_uri[t] = session[t].target_uri
    /\ (/\ cmd[t] = "transfer" /\ Len(args[t]) = 2
        /\ (session[t].source_uri = NoUri \/ session[t].target_uri = NoUri)) =>
         /\ pc[t] \in {"reply_missing", "done"}
         /\ Len(outbox[t]) = 1 /\ outbox[t][1].text = "missing"
         /\ acquired[t] = {}

\* A transfer with two collection names, whose session had source_uri but
\* no target_uri, has ended with 'set both URIs first' delivered and no
\* connection opened.
C4_Witness ==
  \E t \in Tasks :
    /\ pc[t] = "done" /\ cmd[t] = "transfer" /\ Len(args[t]) = 2
    /\ session[t].source_uri # NoUri /\ session[t].target_uri = NoUri
    /\ outbox[t] = <<Reply("missing", 0)>>
    /\ acquired[t] = {}

\* C5: a transfer with any number of collection names other than two sends
\* the usage message and nothing else, opens no connection, issues no
\* insert_many call and writes no log entry, whatever its session holds.
C5_UsageError ==
  \A t \in Tasks :
    (cmd[t] = "transfer" /\ Len(args[t]) # 2) =>
      /\ pc[t] \in {"reply_usage", "done"}
      /\ Len(outbox[t]) = 1 /\ outbox[t][1].text = "usage"
      /\ acquired[t] = {} /\ conns[t] = {}
      /\ inserts[t] = 0
      /\ log[t] = <<>>

\* A transfer with one collection name, by an identity whose session has
\* both URIs, has ended with the usage message delivered and no connection
\* opened.
C5_Witness ==
  \E t \in Tasks :
    /\ pc[t] = "done" /\ cmd[t] = "transfer" /\ Len(args[t]) = 1
    /\ session[t].source_uri # NoUri /\ session[t].target_uri # NoUri
    /\ outbox[t] = <<Reply("usage", 0)>>
    /\ acquired[t] = {}

\* C6: when the insert_many call of a transfer fails, the handler goes on to
\* send the 'MongoDB Error' reply; and no step of a transfer changes the
\* collection it reads from.
C6_WriteFailure ==
  [][/\ \A t \in Tasks :
          (pc[t] = "insert_many" /\ pc'[t] \notin {"insert_many", "reply_success"}) =>
            /\ pc'[t] = "reply_error"
            /\ Last(outbox'[t]) = Message("mongo_error", 0)
     /\ \A t \in Tasks :
          (pc'[t] # pc[t] /\ src_db[t] # NoDb) =>
            db'[SrcKey(t)] = db[SrcKey(t)]]_vars

\* A transfer whose insert_many call met a document the target already
\* holds has ended with the 'MongoDB Error' reply delivered and logged, and
\* its source collection still holds the documents it read.
C6_Witness ==
  \E t \in Tasks :
    /\ pc[t] = "done" /\ cmd[t] = "transfer"
    /\ inserts[t] = 1
    /\ outbox[t] = <<Reply("mongo_error", 0)>>
    /\ log[t] = <<"error">>
    /\ docs[t] # <<>> /\ db[SrcKey(t)] = docs[t]
    /\ FirstCollision(db[TgtKey(t)], docs[t]) <= Len(docs[t])

\* C7: a handler holds open only connections it opened, and holds none
\* once it has left the `with` block: when it has ended, and while it sends
\* a reply from outside the block.
C7_ConnectionsReleased ==
  \A t \in Tasks :
    /\ conns[t] \subseteq acquired[t]
    /\ pc[t] \in {"idle", "done", "reply_error", "reply_usage", "reply_missing",
                  "reply_set"} => conns[t] = {}

\* A transfer that opened the source connection and failed to open the
\* target connection has ended with no connection open.
C7_Witness ==
  \E t \in Tasks :
    /\ pc[t] = "done" /\ cmd[t] = "transfer"
    /\ acquired[t] = {"src"}
    /\ conns[t] = {}
    /\ Texts(outbox[t]) \cap {"mongo_error", "unexpected_error"} # {}

\* C8: a set_source that passes the usage check leaves the identity's
\* source_uri equal to its argument and the identity's target_uri as it was,
\* set or unset; set_target likewise sets target_uri and leaves source_uri.
C8_LastWriteWins ==
  [][\A t \in Tasks :
       (pc[t] = "idle" /\ pc'[t] = "reply_set") =>
         LET c == chat_id'[t]
             u == args'[t][1]
         IN IF cmd'[t] = "set_source"
            THEN /\ user_sessions'[c].source_uri = u
                 /\ user_sessions'[c].target_uri = user_sessions[c].target_uri
            ELSE /\ user_sessions'[c].target_uri = u
                 /\ user_sessions'[c].source_uri = user_sessions[c].source_uri]_vars

\* A set_source has ended for an identity whose session held another
\* source_uri and a target_uri: source_uri is now the argument and
\* target_uri is what it was.
C8_Witness ==
  \E t \in Tasks :
    /\ pc[t] = "done" /\ cmd[t] = "set_source" /\ args[t] # <<>>
    /\ session[t].source_uri \notin {NoUri, args[t][1]}
    /\ session[t].target_uri # NoUri
    /\ user_sessions[chat_id[t]].source_uri = args[t][1]
    /\ user_sessions[chat_id[t]].target_uri = session[t].target_uri

\* C9 as claimed: when a handler has ended, the operator has received
\* exactly one reply for the command.
C9_AsClaimed ==
  \A t \in Tasks :
    pc[t] = "done" => Cardinality(Delivered(outbox[t])) = 1

\* C10 as claimed: no exception leaves the transfer handler, and a transfer
\* in which something failed ends with an error reply delivered and an
\* error logged.
C10_AsClaimed ==
  \A t \in Tasks :
    cmd[t] = "transfer" =>
      /\ ~escaped[t]
      /\ (/\ pc[t] = "done"
          /\ \E i \in 1..Len(outbox[t]) :
               \/ outbox[t][i].status = "failed"
               \/ outbox[t][i].text \in {"mongo_error", "unexpected_error"}) =>
           /\ \E i \in Delivered(outbox[t]) :
                outbox[t][i].text \in {"mongo_error", "unexpected_error"}
           /\ "error" \in Range(log[t])

\* The reference for C11, by positions: the characters after the last "/"
\* (all of them when there is none), up to the first "?" among those.
AfterLastSlash(u) ==
  LET slashes == {i \in 1..Len(u) : u[i] = "/"}
      from == IF slashes = {} THEN 1
              ELSE 1 + CHOOSE i \in slashes : \A j \in slashes : j <= i
  IN SubSeq(u, from, Len(u))
UpToFirstQuestionMark(u) ==
  LET marks == {i \in 1..Len(u) : u[i] = "?"}
  IN IF marks = {} THEN u
     ELSE SubSeq(u, 1, (CHOOSE i \in marks : \A j \in marks : i <= j) - 1)
ReferenceName(u) == UpToFirstQuestionMark(AfterLastSlash(u))

\* C11: for every connection string, the database name _get_database takes
\* from it is the substring after the final "/" truncated at the first "?";
\* "mongodb://h/dbname?x=1" gives "dbname" and "mongodb://h/" gives the empty
\* name; and the default database is selected exactly when that name is
\* empty, a database by name otherwise.
C11_ResolveMatchesReference ==
  resolving.pc \in {"returned", "repeated"} =>
    /\ resolving.name = ReferenceName(resolving.uri)
    /\ resolving.uri = UriWithQuery => resolving.name = <<"d", "b", "n", "a", "m", "e">>
    /\ resolving.uri = UriNoName => resolving.name = <<>>
    /\ resolving.branch = "get_database" <=> ReferenceName(resolving.uri) = <<>>
    /\ resolving.branch = "by_name" <=> ReferenceName(resolving.uri) # <<>>

\* A string with a "/" inside its query part and several "?" has been resolved.
C11_Witness ==
  /\ resolving.pc = "returned"
  /\ resolving.uri = <<"a", "?", "/", "h", "?">>
  /\ resolving.name = <<"h">>
  /\ resolving.branch = "by_name"

\* C12: resolving the name that _get_database produced gives that name
\* again, and the name never contains "/" or "?".
C12_ResolveIdempotent ==
  /\ resolving.pc \in {"returned", "repeated"} =>
       "/" \notin Range(resolving.name) /\ "?" \notin Range(resolving.name)
  /\ resolving.pc = "repeated" => resolving.again = resolving.name

\* A nonempty name has been resolved a second time, from a string with a query.
C12_Witness ==
  /\ resolving.pc = "repeated"
  /\ resolving.uri = <<"h", "/", "a", "?", "h">>
  /\ resolving.again = <<"a">>

IsPrefix(s, r) == Len(s) <= Len(r) /\ s = SubSeq(r, 1, Len(s))

\* C13: a transfer looks its session up once and takes both URIs from it in
\* the same step; from then on, whatever set_source or set_target does to
\* the store while the transfer is suspended, the session the transfer holds
\* stays as looked up, and the URIs it connects to are that session's
\* source_uri, then its target_uri.
C13_SessionSnapshot ==
  [][\A t \in Tasks :
       cmd'[t] = "transfer" =>
         /\ IsPrefix(dialed'[t], <<session'[t].source_uri, session'[t].target_uri>>)
         /\ cmd[t] # "transfer" =>
              /\ session'[t] = user_sessions[chat_id'[t]]
              /\ pc'[t] = "open_source" =>
                   /\ src_uri'[t] = user_sessions[chat_id'[t]].source_uri
                   /\ tgt_uri'[t] = user_sessions[chat_id'[t]].target_uri
         /\ cmd[t] = "transfer" =>
              /\ session'[t] = session[t]
              /\ src_uri'[t] = src_uri[t] /\ tgt_uri'[t] = tgt_uri[t]
              /\ IsPrefix(dialed[t], dialed'[t])]_vars

\* A transfer has connected to both URIs and is suspended in a reply; a
\* set_source of the same chat has since stored another source URI.
C13_Witness ==
  \E t \in Tasks, u \in Tasks :
    /\ cmd[t] = "transfer" /\ pc[t] \in AwaitPcs
    /\ cmd[u] = "set_source" /\ chat_id[u] = chat_id[t] /\ pc[u] = "reply_set"
    /\ dialed[t] = <<session[t].source_uri, session[t].target_uri>>
    /\ user_sessions[chat_id[t]].source_uri # dialed[t][1]

\* C14: under every interleaving of handlers, a step changes the session of
\* a chat only when it is the start of a set_source or set_target for that
\* chat, the new session is computed from that chat's session and the
\* command's argument alone, and a transfer looks up its own chat's session.
C14_Isolation ==
  [][\A c \in ChatIds :
       /\ user_sessions'[c] # user_sessions[c] =>
            \E t \in Tasks :
              /\ pc[t] = "idle" /\ pc'[t] = "reply_set" /\ chat_id'[t] = c
              /\ \/ /\ cmd'[t] = "set_source"
                    /\ user_sessions'[c] =
                         [user_sessions[c] EXCEPT !.exists = TRUE,
                                                  !.source_uri = args'[t][1]]
                 \/ /\ cmd'[t] = "set_target"
                    /\ user_sessions'[c] =
                         [user_sessions[c] EXCEPT !.exists = TRUE,
                                                  !.target_uri = args'[t][1]]
       /\ \A t \in Tasks :
            (pc[t] = "idle" /\ cmd'[t] = "transfer" /\ chat_id'[t] = c) =>
              session'[t] = user_sessions[c]]_vars

\* Handlers of two chats are in flight together: chat 1 has set its source,
\* chat 2 its target, and each session holds its own chat's URI only.
C14_Witness ==
  \E t \in Tasks, u \in Tasks :
    /\ cmd[t] = "set_source" /\ chat_id[t] = 1 /\ pc[t] = "reply_set"
    /\ cmd[u] = "set_target" /\ chat_id[u] = 2 /\ pc[u] = "reply_set"
    /\ user_sessions[1] = [exists |-> TRUE, source_uri |-> args[t][1],
                           target_uri |-> NoUri]
    /\ user_sessions[2] = [exists |-> TRUE, source_uri |-> NoUri,
                           target_uri |-> args[u][1]]

\* C15: when a set_source with URI A and a set_target with URI B of the same
\* chat are in flight together and both have passed their store, in either
\* order, the chat's session holds source_uri = A and target_uri = B:
\* neither store undoes the other.
C15_NoLostUpdate ==
  \A t \in Tasks, u \in Tasks :
    (/\ cmd[t] = "set_source" /\ pc[t] \in {"reply_set", "done"} /\ args[t] # <<>>
     /\ cmd[u] = "set_target" /\ pc[u] \in {"reply_set", "done"} /\ args[u] # <<>>
     /\ chat_id[t] = chat_id[u])
    => user_sessions[chat_id[t]] =
         [exists |-> TRUE, source_uri |-> args[t][1], target_uri |-> args[u][1]]

\* A chat with no session: its set_target stored first, its set_source was
\* dispatched while that one was suspended, and both URIs are in the session.
C15_Witness ==
  \E t \in Tasks, u \in Tasks :
    /\ cmd[t] = "set_source" /\ pc[t] = "reply_set" /\ args[t] = <<UriA>>
    /\ cmd[u] = "set_target" /\ pc[u] = "reply_set" /\ args[u] = <<UriD>>
    /\ chat_id[t] = 2 /\ chat_id[u] = 2
    /\ ~session[u].exists /\ session[t].target_uri = UriD
    /\ user_sessions[2] =
         [exists |-> TRUE, source_uri |-> UriA, target_uri |-> UriD]

\* The moves of a transfer from one position to the next: the chain
\* validate, open source, open target, (database handles,) read, bulk write,
\* success report; the empty report after the read; a failure report from
\* any position of the chain or in place of a report that could not be sent.
TransferChain == <<"idle", "open_source", "open_target", "get_database",
                   "find", "insert_many", "reply_success", "done">>
TransferEdges ==
  {<<TransferChain[i], TransferChain[i + 1]>> : i \in 1..(Len(TransferChain) - 1)}
  \cup {<<"idle", "reply_usage">>, <<"idle", "reply_missing">>,
        <<"reply_usage", "done">>, <<"reply_missing", "done">>,
        <<"find", "reply_empty">>, <<"reply_empty", "done">>,
        <<"reply_error", "done">>}
  \cup {<<p, "reply_error">> : p \in {"open_source", "open_target", "get_database",
                                       "find", "insert_many", "reply_empty",
                                       "reply_success"}}

\* How far a position is along a transfer; every edge goes forward.
Stage(p) ==
  CASE p = "idle" -> 0
    [] p = "open_source" -> 1
    [] p = "open_target" -> 2
    [] p = "get_database" -> 3
    [] p = "find" -> 4
    [] p \in {"insert_many", "reply_empty"} -> 5
    [] p = "reply_success" -> 6
    [] p \in {"reply_usage", "reply_missing", "reply_error"} -> 7
    [] p = "done" -> 8

\* C16: a transfer moves only along validate, open source, open target,
\* read, then the empty report or the bulk write and the success report,
\* with a failure report as the only way out of that chain; it never goes
\* back (one read, one bulk write, nothing retried after a failure), its
\* locals docs are assigned by the read only, and insert_many is called
\* only right after the read returned at least one document, with the
\* source connection opened before the target connection.
C16_TransferOrder ==
  [][\A t \in Tasks :
       cmd'[t] = "transfer" =>
         /\ pc'[t] # pc[t] =>
              /\ <<pc[t], pc'[t]>> \in TransferEdges
              /\ Stage(pc[t]) < Stage(pc'[t])
         /\ docs'[t] # docs[t] => pc[t] = "find" /\ pc'[t] = "insert_many"
         /\ pc'[t] = "insert_many" => docs'[t] # <<>> /\ inserts'[t] = 0
         /\ inserts'[t] # inserts[t] =>
              /\ pc[t] = "insert_many" /\ docs[t] # <<>>
              /\ inserts[t] = 0 /\ inserts'[t] = 1
         /\ acquired'[t] \in {{}, {"src"}, {"src", "tgt"}}
         /\ pc[t] = "reply_error" =>
              /\ db' = db
              /\ dialed'[t] = dialed[t] /\ inserts'[t] = inserts[t]]_vars

\* A transfer has gone through the whole chain: both connections opened,
\* documents read, one bulk write, the success report delivered.
C16_Witness ==
  \E t \in Tasks :
    /\ cmd[t] = "transfer" /\ pc[t] = "done"
    /\ acquired[t] = {"src", "tgt"} /\ Len(dialed[t]) = 2
    /\ docs[t] # <<>> /\ inserts[t] = 1
    /\ Texts(outbox[t]) = {"success"} /\ Delivered(outbox[t]) = {1}

\* C17: no step of a transfer, from its session lookup to its end and on
\* every outcome, changes user_sessions; the lookup of a chat that has no
\* session yields the empty session, raises nothing and creates no session.
C17_TransferKeepsSessions ==
  [][\A t \in Tasks :
       ((cmd[t] = "transfer" \/ cmd'[t] = "transfer") /\ pc'[t] # pc[t]) =>
         /\ user_sessions' = user_sessions
         /\ configured' = configured
         /\ pc[t] = "idle" =>
              /\ pc'[t] \in {"reply_usage", "reply_missing", "open_source"}
              /\ ~escaped'[t]
              /\ ~user_sessions[chat_id'[t]].exists =>
                   /\ session'[t] = EmptySession
                   /\ ~user_sessions'[chat_id'[t]].exists]_vars

\* A chat that never configured anything has run a transfer to its end and
\* still has no session.
C17_Witness ==
  \E t \in Tasks :
    /\ cmd[t] = "transfer" /\ pc[t] = "done" /\ Len(args[t]) = 2
    /\ chat_id[t] \notin configured
    /\ ~user_sessions[chat_id[t]].exists
    /\ outbox[t] = <<Reply("missing", 0)>>

\* C18: set_source or set_target with no argument sends the usage message
\* and changes neither user_sessions nor anything else kept between
\* commands; with an argument it stores the first argument, whatever string
\* it is, under its key of the chat's session before it replies, sends the
\* acknowledgement and no other reply, and changes nothing afterwards.
C18_SetUsageOrStore ==
  [][\A t \in Tasks :
       cmd'[t] \in {"set_source", "set_target"} =>
         /\ pc[t] = "idle" =>
              IF args'[t] = <<>>
              THEN /\ pc'[t] = "reply_usage"
                   /\ outbox'[t] = <<Message("usage", 0)>>
                   /\ user_sessions' = user_sessions
                   /\ configured' = configured
                   /\ db' = db
              ELSE /\ pc'[t] = "reply_set"
                   /\ args'[t][1] \in URIs
                   /\ user_sessions'[chat_id'[t]] =
                        IF cmd'[t] = "set_source"
                        THEN [user_sessions[chat_id'[t]] EXCEPT
                                !.exists = TRUE, !.source_uri = args'[t][1]]
                        ELSE [user_sessions[chat_id'[t]] EXCEPT
                                !.exists = TRUE, !.target_uri = args'[t][1]]
                   /\ outbox'[t] =
                        <<Message(IF cmd'[t] = "set_source" THEN "source_set"
                                  ELSE "target_set", 0)>>
                   /\ db' = db
         /\ pc[t] # "idle" =>
              /\ user_sessions' = user_sessions
              /\ db' = db
              /\ Texts(outbox'[t]) = Texts(outbox[t])
              /\ pc'[t] \in {pc[t], "done"}]_vars

\* A chat whose session holds a source URI has sent set_target with no
\* argument: the usage message is delivered and the session is as it was.
C18_Witness ==
  \E t \in Tasks :
    /\ cmd[t] = "set_target" /\ args[t] = <<>> /\ pc[t] = "done"
    /\ outbox[t] = <<Reply("usage", 0)>>
    /\ user_sessions[chat_id[t]] =
         [exists |-> TRUE, source_uri |-> UriD, target_uri |-> NoUri]

\* C19: a transfer that sends the "MongoDB Error" or "Unexpected error" reply
\* has left the target collection as it was: the insert_many step that ends
\* in an error reply changes no collection, and after an insert_many that
\* succeeded no error reply is sent, also when the success reply cannot be
\* sent.
C19_AsClaimed ==
  [][\A t \in Tasks :
       cmd'[t] = "transfer" =>
         /\ (pc[t] = "insert_many" /\ pc'[t] = "reply_error") => db' = db
         /\ pc[t] = "reply_success" =>
              Texts(outbox'[t]) \cap {"mongo_error", "unexpected_error"} = {}]_vars

\* C20: whenever the updater polls for commands on a running loop the health
\* endpoint is listening, and no update is ever processed while it is not.
C20_AsClaimed ==
  /\ (polling /\ loop = "running") => serving
  /\ blind = 0

====
